---- MODULE Spec2Model ----
(***************************************************************************)
(* The authenticated request pipeline of the frontend                      *)
(* (src/frontend/src/lib/api.ts) and the auth store that calls it          *)
(* (src/frontend/src/lib/auth-store.ts).                                   *)
(*                                                                         *)
(* JavaScript runs one task at a time: a network response is one task, and *)
(* everything it triggers up to the next network wait (interceptors, the   *)
(* continuation after an await) runs before any other task.  Every action  *)
(* below is one such run between two suspension points.                    *)
(***************************************************************************)
EXTENDS Integers, Sequences, FiniteSets, TLC

\* Number of logical requests (api calls, login, signup, logout) that can be
\* in flight at the same time.
NReq == 2

Requests == 1..NReq

\* What localStorage.getItem returns for an absent key, and an unset field.
Null == "null"

\* Token pairs the server may issue (login, signup and refresh responses).
TokenPairs ==
  { [accessToken |-> "A1", refreshToken |-> "R1"],
    [accessToken |-> "A2", refreshToken |-> "R2"] }

Users == {"u1"}

\* HTTP statuses the server may answer with; 0 is a transport failure
\* (no response: error.response is undefined).
Statuses == {200, 401, 403, 0}

\* response.data of an endpoint that returns no AuthResponse.
NoData == [accessToken |-> Null, refreshToken |-> Null, user |-> Null]

\* AuthResponse bodies (types/index.ts): a token pair and the user.
AuthResponses ==
  { [accessToken |-> p.accessToken, refreshToken |-> p.refreshToken, user |-> u] :
      p \in TokenPairs, u \in Users }

\* JSON.stringify(user) as stored under the key 'user'.
JSONstringify(u) == "json:" \o u

\* `Bearer ${token}`
Bearer(token) == "Bearer " \o token

\* JavaScript truthiness of a string-or-null value.
Truthy(v) == v # Null /\ v # ""

\* axios' default validateStatus: 2xx resolves, anything else rejects.
IsSuccess(status) == status >= 200 /\ status < 300

VARIABLES
  localStorage,   \* keys accessToken, refreshToken, user (Null = absent)
  authState,      \* the zustand store: user, isAuthenticated, isLoading
  href,           \* the page the browser is on (window.location.href, router)
  kind,           \* per request: which caller issued it
  pc,             \* per request: where its promise chain is suspended
  config,         \* per request: the axios config (_retry, Authorization)
  result,         \* per request: how the api promise settled
  renewData,      \* per request: response.data of its renewal call
  log,            \* per request: network calls sent and responses received
  lastSent,       \* per request: what its most recent call carried
  settles,        \* per request: number of times the api promise settled
  logoutReturn,   \* how logout() returned, if the step just taken completed one
  props,          \* DataTable: the props of the latest render
  sorting,        \* DataTable: useState<SortingState>
  columnFilters,  \* DataTable: useState<ColumnFiltersState>
  searchValue,    \* DataTable: useState("") of the search box
  pagination,     \* DataTable: the pagination state the table instance keeps
  event,          \* DataTable: the latest event handler and the callbacks it invoked
  view,           \* DataTable: what the latest render put on the screen
  created,        \* DataTable: the mode the instance was created in
  users,          \* server: the users table (role of each registered email)
  refreshTokens,  \* server: the refresh_tokens table
  issued,         \* server: number of token pairs generated so far
  redeemed,       \* server: refresh tokens a refresh call has exchanged (history)
  tasks,          \* server: the tasks table
  nextId,         \* server: the next generated task id
  response,       \* server: the service call just executed and its outcome
  reply,          \* per request: the server's answer to its renewal call
  page,           \* tasks page: its useState values
  fetches         \* tasks page: the fetchTasks calls awaiting their response

\* The variables of the DataTable component.
tableVars == <<props, sorting, columnFilters, searchValue, pagination, event,
               view, created>>

\* The tables of the backend and the answer of its last service call.
serverVars == <<users, refreshTokens, issued, redeemed, tasks, nextId, response>>

\* The backend, the renewal answers in flight and the tasks page.
backendVars == <<serverVars, reply, page, fetches>>

vars == <<localStorage, authState, href, kind, pc, config, result,
          renewData, log, lastSent, settles, logoutReturn, tableVars,
          backendVars>>

EmptyStorage == [accessToken |-> Null, refreshToken |-> Null, user |-> Null]

Pending == [state |-> "pending", call |-> "none", status |-> 0, data |-> NoData]

\* Log entries: a network call sent, a response (or transport failure) received.
Sent(call) == [ev |-> "send", call |-> call, status |-> 0]

Received(call, status) == [ev |-> "recv", call |-> call, status |-> status]

\* What the most recent call of a request left with: its Authorization header,
\* the access token stored at that moment, and the refresh token in its body.
Wire(auth, stored, body) == [auth |-> auth, stored |-> stored, body |-> body]

\* logout() has not just returned.
NotReturned == [promise |-> "none", api |-> "none", status |-> 0]

\* logout(): the promise it returns, given how its api.post('/api/auth/logout')
\* ended ("fulfilled", "rejected", or "skipped" when no refresh token was
\* stored).  The catch block swallows the error and the finally block does not
\* throw.
LogoutPromiseRethrows(api) == IF api = "rejected" THEN "rejected" ELSE "resolved"

LogoutPromise(api) == "resolved"

\* logout() returned in the step just taken.
Returned(api, status) ==
  [promise |-> LogoutPromise(api), api |-> api, status |-> status]

(***************************************************************************)
(* The DataTable component (src/frontend/src/components/DataTable.tsx) and *)
(* the table instance of useReactTable it renders from.  Strings the table *)
(* looks into (cell values, the search text) are sequences of letters.     *)
(***************************************************************************)

\* Number of rows of the largest dataset handed to the table.
MaxRows == 12

\* An optional numeric prop that was not supplied.
Undefined == -1

\* The pagination state a table instance starts with.
InitialPagination == [pageIndex |-> 0, pageSize |-> 10]

Min(a, b) == IF a < b THEN a ELSE b

Max(a, b) == IF a > b THEN a ELSE b

\* Math.ceil(a / b) for a >= 0, b > 0.
Ceil(a, b) == (a + b - 1) \div b

\* v || d for a numeric prop: undefined and 0 are falsy.
OrElse(v, d) == IF v = Undefined \/ v = 0 THEN d ELSE v

\* The rows a caller may pass as data: an id, a number to sort on (with ties)
\* and a title to search in.
Titles == << <<"a">>, <<"b">>, <<"A", "b">> >>

Row(i) == [id |-> i, rank |-> (i * 2) % 5, title |-> Titles[(i % 3) + 1]]

Dataset(n) == [i \in 1..n |-> Row(i)]

RowCounts == {0, MaxRows}

\* The column definitions of the caller (accessor keys).
Columns == <<"rank", "title">>

\* What a user may type into the search box.
Queries == { <<>>, <<"a">>, <<"b">> }

\* The values of SortingState the column headers can set.
Sortings ==
  { <<>>, <<[id |-> "rank", desc |-> FALSE]>>, <<[id |-> "rank", desc |-> TRUE]>> }

\* DataTableProps: the values a parent may pass for each prop.
PropDomains ==
  [ data |-> {Dataset(n) : n \in RowCounts},
    columns |-> {Columns},
    searchKey |-> {"title"},
    pageCount |-> {Undefined, 0, 3},
    pageIndex |-> {Undefined, 1, 2},
    pageSize |-> {Undefined, 5},
    onPaginationChange |-> BOOLEAN,
    onSearchChange |-> BOOLEAN,
    isLoading |-> BOOLEAN,
    totalElements |-> {Undefined, 0, MaxRows} ]

PropsSet ==
  [ data : PropDomains.data,
    columns : PropDomains.columns,
    searchKey : PropDomains.searchKey,
    pageCount : PropDomains.pageCount,
    pageIndex : PropDomains.pageIndex,
    pageSize : PropDomains.pageSize,
    onPaginationChange : PropDomains.onPaginationChange,
    onSearchChange : PropDomains.onSearchChange,
    isLoading : PropDomains.isLoading,
    totalElements : PropDomains.totalElements ]

\* The props a parent changes from render to render.
Dynamic == {"data", "pageCount", "pageIndex", "pageSize", "isLoading", "totalElements"}

\* const isServerSide = serverPageCount !== undefined
IsServerSide(p) == p.pageCount # Undefined

\* String.prototype.toLowerCase
ToLowerCase(s) == [i \in DOMAIN s |-> IF s[i] = "A" THEN "a" ELSE s[i]]

\* String.prototype.includes
Includes(s, q) == \E i \in 0..(Len(s) - Len(q)) : SubSeq(s, i + 1, i + Len(q)) = q

\* The default filter function of a text column: case-insensitive containment.
IncludesString(value, q) == Includes(ToLowerCase(value), ToLowerCase(q))

\* getFilteredRowModel: the rows that pass every column filter.
Filtered(data, cf) ==
  LET Passes(row) == \A k \in DOMAIN cf : IncludesString(row[cf[k].id], cf[k].value)
  IN SelectSeq(data, Passes)

\* getSortedRowModel: rows ordered by the value of the first sort entry's
\* column, smallest first (largest first when desc); rows with equal values
\* stay in their original order, ascending or descending alike.  The rows are
\* taken value by value, in that order.
RECURSIVE SortedFrom(_, _, _)
SortedFrom(rows, entry, values) ==
  IF values = {} THEN <<>>
  ELSE LET v == CHOOSE v \in values :
                  \A w \in values : IF entry.desc THEN w <= v ELSE v <= w
           Equal(row) == row[entry.id] = v
       IN SelectSeq(rows, Equal) \o SortedFrom(rows, entry, values \ {v})

Sorted(rows, so) ==
  IF so = <<>> THEN rows
  ELSE SortedFrom(rows, so[1], {rows[i][so[1].id] : i \in DOMAIN rows})

\* getPaginationRowModel: rows.slice(pageSize * pageIndex, pageSize * pageIndex + pageSize)
Paginated(rows, pg) ==
  LET start == pg.pageSize * pg.pageIndex
      end == Min(start + pg.pageSize, Len(rows))
  IN IF start >= Len(rows) THEN <<>> ELSE SubSeq(rows, start + 1, end)

\* table.getState().pagination: in server mode the state option overrides the
\* state the instance keeps.
StatePagination(p, pag) ==
  IF IsServerSide(p)
  THEN [pageIndex |-> OrElse(p.pageIndex, 0), pageSize |-> OrElse(p.pageSize, 10)]
  ELSE pag

\* table.getPrePaginationRowModel(): filter, then sort.
PrePagination(p, so, cf) == Sorted(Filtered(p.data, cf), so)

\* table.getRowModel(): with manualPagination (server mode) the rows before
\* pagination, otherwise the current page of them.
RowModelFilterLast(p, so, cf, pag) ==
  IF IsServerSide(p) THEN PrePagination(p, so, cf)
  ELSE Filtered(Paginated(Sorted(p.data, so), StatePagination(p, pag)), cf)

RowModel(p, so, cf, pag) ==
  IF IsServerSide(p) THEN PrePagination(p, so, cf)
  ELSE Paginated(PrePagination(p, so, cf), StatePagination(p, pag))

\* table.getPageCount(): options.pageCount ?? Math.ceil(rows / pageSize)
GetPageCount(p, so, cf, pag) ==
  IF p.pageCount # Undefined THEN p.pageCount
  ELSE Ceil(Len(PrePagination(p, so, cf)), StatePagination(p, pag).pageSize)

\* const currentPageIndex, currentPageSize, totalPages
CurrentPageIndex(p, pag) ==
  IF IsServerSide(p) THEN OrElse(p.pageIndex, 0) ELSE StatePagination(p, pag).pageIndex

CurrentPageSize(p, pag) ==
  IF IsServerSide(p) THEN OrElse(p.pageSize, 10) ELSE StatePagination(p, pag).pageSize

TotalPages(p, so, cf, pag) ==
  IF IsServerSide(p) THEN OrElse(p.pageCount, 0) ELSE GetPageCount(p, so, cf, pag)

\* The disabled attribute of the four navigation buttons.
DisabledPastEnd(idx, pages) ==
  [first |-> idx = 0, previous |-> idx = 0,
   next |-> idx > pages - 1, last |-> idx > pages - 1]

Disabled(idx, pages) ==
  [first |-> idx = 0, previous |-> idx = 0,
   next |-> idx >= pages - 1, last |-> idx >= pages - 1]

\* The page index each navigation button asks for.
TargetIndexLastIsCount(button, idx, pages) ==
  CASE button = "first" -> 0
    [] button = "previous" -> idx - 1
    [] button = "next" -> idx + 1
    [] button = "last" -> pages

TargetIndex(button, idx, pages) ==
  CASE button = "first" -> 0
    [] button = "previous" -> idx - 1
    [] button = "next" -> idx + 1
    [] button = "last" -> pages - 1

\* The rows of <tbody>: the loading row, one row per entity, or the no-data row.
BodyRowsWhileLoading(isLoading, rows, columns) ==
  IF Len(rows) # 0
  THEN [k \in 1..Len(rows) |-> [row |-> "data", colSpan |-> 1, id |-> rows[k].id]]
  ELSE IF isLoading THEN <<[row |-> "loading", colSpan |-> Len(columns), id |-> 0]>>
  ELSE <<[row |-> "empty", colSpan |-> Len(columns), id |-> 0]>>

Body(isLoading, rows, columns) ==
  IF isLoading THEN <<[row |-> "loading", colSpan |-> Len(columns), id |-> 0]>>
  ELSE IF Len(rows) # 0
  THEN [k \in 1..Len(rows) |-> [row |-> "data", colSpan |-> 1, id |-> rows[k].id]]
  ELSE <<[row |-> "empty", colSpan |-> Len(columns), id |-> 0]>>

\* The count text left of the buttons: "total / start-end" when totalElements
\* is supplied, "page / pages" otherwise.
CountTextNoMin(totalElements, idx, size, pages) ==
  IF totalElements # Undefined
  THEN [form |-> "range", total |-> totalElements, start |-> idx * size + 1,
        end |-> (idx + 1) * size, page |-> 0, pages |-> 0]
  ELSE [form |-> "page", total |-> 0, start |-> 0, end |-> 0,
        page |-> idx + 1, pages |-> OrElse(pages, 1)]

CountText(totalElements, idx, size, pages) ==
  IF totalElements # Undefined
  THEN [form |-> "range", total |-> totalElements, start |-> idx * size + 1,
        end |-> Min((idx + 1) * size, totalElements), page |-> 0, pages |-> 0]
  ELSE [form |-> "page", total |-> 0, start |-> 0, end |-> 0,
        page |-> idx + 1, pages |-> OrElse(pages, 1)]

\* One render of the component: what it puts on the screen.
Render(p, so, cf, pag) ==
  LET idx == CurrentPageIndex(p, pag)
      size == CurrentPageSize(p, pag)
      pages == TotalPages(p, so, cf, pag)
  IN [ search |-> (p.searchKey # Null \/ p.onSearchChange),
       body |-> Body(p.isLoading, RowModel(p, so, cf, pag), p.columns),
       text |-> CountText(p.totalElements, idx, size, pages),
       disabled |-> Disabled(idx, pages) ]

\* A handler that invoked no callback.
NoCalls(name) == [handler |-> name, calls |-> <<>>]

\* The latest step was a render, not a handler of the search box or a button.
NoEvent == NoCalls("none")

\* Before a table is on the screen.
NoProps ==
  [ data |-> <<>>, columns |-> Columns, searchKey |-> Null, pageCount |-> Undefined,
    pageIndex |-> Undefined, pageSize |-> Undefined, onPaginationChange |-> FALSE,
    onSearchChange |-> FALSE, isLoading |-> FALSE, totalElements |-> Undefined ]

TableAbsent ==
  /\ props = NoProps
  /\ sorting = <<>>
  /\ columnFilters = <<>>
  /\ searchValue = <<>>
  /\ pagination = InitialPagination
  /\ event = NoEvent
  /\ view = Render(NoProps, <<>>, <<>>, InitialPagination)
  /\ created = "none"

(***************************************************************************)
(* The backend: AuthService and TaskService over their JPA repositories.   *)
(* A service method is one transaction; an exception thrown inside it      *)
(* rolls back what the method wrote.                                       *)
(***************************************************************************)

\* Token pairs the server generates before the model stops issuing.
MaxIssued == 4

\* Tasks the server creates before the model stops creating.
MaxTasks == 2

\* E-mail addresses of accounts; "admin" is the seeded administrator.
Emails == {"admin", "u1", "u2"}

\* The role of an e-mail address nobody registered.
NoRole == "none"

\* The users table after the seed data: the administrator only.
SeededUsers == [e \in Emails |-> IF e = "admin" THEN "ADMIN" ELSE NoRole]

\* jwtTokenProvider.generateAccessToken / generateRefreshToken: the n-th pair
\* the server generates.  Every generated pair is new.
GenerateTokens(n) ==
  [accessToken |-> "A" \o ToString(n), refreshToken |-> "R" \o ToString(n)]

\* Refresh tokens a client may present: every one the server can have
\* generated, and one it never generated.
PresentableTokens == {GenerateTokens(n).refreshToken : n \in 1..MaxIssued} \cup {"forged"}

\* A row of refresh_tokens: the token, its user, and whether its expiryDate
\* is before Instant.now().
TokenRow(token, user, expired) == [token |-> token, user |-> user, expired |-> expired]

\* refreshTokenRepository.findByToken
FindByToken(table, token) == {row \in table : row.token = token}

\* refreshTokenRepository.deleteByUser
DeleteByUser(table, user) == {row \in table : row.user # user}

\* refreshTokenRepository.deleteByToken
DeleteByToken(table, token) == {row \in table : row.token # token}

\* What a service call answers with when it carries no tokens and no tasks.
NoTokens == [accessToken |-> Null, refreshToken |-> Null]

\* AuthService.createAuthResponse: generate the next pair, save the refresh
\* token for the user, answer with the pair and the user.
CreateAuthResponse(table, n, user) ==
  LET pair == GenerateTokens(n + 1)
  IN [ table |-> table \cup {TokenRow(pair.refreshToken, user, FALSE)},
       issued |-> n + 1,
       outcome |-> "ok",
       tokens |-> pair,
       user |-> user ]

\* A service call that threw: nothing is written.
Thrown(table, n, exception) ==
  [ table |-> table, issued |-> n, outcome |-> exception, tokens |-> NoTokens,
    user |-> Null ]

\* AuthService.login after authentication succeeded: the user's stored
\* refresh tokens are deleted before the new one is created.
LoginKeepsOldTokens(table, n, user) == CreateAuthResponse(table, n, user)

LoginIssue(table, n, user) ==
  CreateAuthResponse(DeleteByUser(table, user), n, user)

\* AuthService.refreshToken: an unknown token and an expired one are
\* rejected (the delete of the expired row is rolled back by the exception);
\* otherwise the presented row is deleted and a new pair is created.
RefreshTokenKeepsOld(table, n, token) ==
  LET found == FindByToken(table, token)
  IN IF found = {} THEN Thrown(table, n, "UnauthorizedException")
     ELSE LET row == CHOOSE row \in found : TRUE
          IN IF row.expired THEN Thrown(table, n, "UnauthorizedException")
             ELSE CreateAuthResponse(table, n, row.user)

RefreshToken(table, n, token) ==
  LET found == FindByToken(table, token)
  IN IF found = {} THEN Thrown(table, n, "UnauthorizedException")
     ELSE LET row == CHOOSE row \in found : TRUE
          IN IF row.expired THEN Thrown(table, n, "UnauthorizedException")
             ELSE CreateAuthResponse(table \ {row}, n, row.user)

\* Task titles and the statuses a TaskRequest may carry (Null: no status).
TaskTitles == { <<"a">>, <<"A", "b">> }

TaskStatuses == {"PENDING", "COMPLETED"}

TaskRequests == [title : TaskTitles, status : TaskStatuses \cup {Null}]

\* Search strings of GET /api/tasks; the empty one stands for an absent or
\* blank parameter.
Searches == { <<>>, <<"a">> }

\* A call that carried no TaskRequest.
NoRequest == [title |-> <<>>, status |-> Null]

\* request.getStatus() != null ? request.getStatus() : current
StatusOrCurrent(requested, current) == current

StatusOr(requested, current) == IF requested # Null THEN requested ELSE current

\* taskRepository.findById
FindById(table, id) == {t \in table : t.id = id}

\* TaskService.findTaskAndCheckAccess: the exception it throws, or "ok".
CheckAccessOpen(table, roles, caller, id) ==
  IF FindById(table, id) = {} THEN "ResourceNotFoundException" ELSE "ok"

CheckAccess(table, roles, caller, id) ==
  IF FindById(table, id) = {} THEN "ResourceNotFoundException"
  ELSE LET task == CHOOSE t \in FindById(table, id) : TRUE
       IN IF roles[caller] # "ADMIN" /\ task.user # caller
          THEN "UnauthorizedException" ELSE "ok"

\* Sort.by(direction, "id"): the rows of a set of tasks ordered by id.
RECURSIVE SortById(_, _)
SortById(table, desc) ==
  IF table = {} THEN <<>>
  ELSE LET first == CHOOSE t \in table :
                      \A u \in table : IF desc THEN u.id <= t.id ELSE t.id <= u.id
       IN <<first>> \o SortById(table \ {first}, desc)

\* The query of the repository method getTasks selects: every task for an
\* administrator, the caller's own otherwise, narrowed by the search string
\* (case-insensitive containment in the title) when it is not blank.
VisibleTo(table, roles, caller, search) ==
  {t \in table :
     /\ roles[caller] = "ADMIN" \/ t.user = caller
     /\ search = <<>> \/ IncludesString(t.title, search)}

\* TaskService.getTasks: PageRequest.of(page, size, sort) over the selected
\* tasks, as a PageResponse.
GetTasks(table, roles, caller, pg, size, search, desc) ==
  LET rows == SortById(VisibleTo(table, roles, caller, search), desc)
      start == pg * size
      end == Min(start + size, Len(rows))
  IN [ content |-> IF start >= Len(rows) THEN <<>> ELSE SubSeq(rows, start + 1, end),
       totalElements |-> Len(rows),
       totalPages |-> Ceil(Len(rows), size) ]

\* The outcome of a service call, as the controller sees it.
Outcome(op, caller, token, id, outcome, tokens, content) ==
  [ op |-> op, caller |-> caller, token |-> token, id |-> id, outcome |-> outcome,
    tokens |-> tokens, content |-> content, request |-> NoRequest ]

NoResponse == Outcome("none", Null, Null, 0, "none", NoTokens, <<>>)

\* No renewal call of the request has been answered.
NoReply == [status |-> 0, data |-> NoData, presented |-> Null]

\* The tasks page (src/frontend/src/app/tasks/page.tsx) when it mounts: its
\* useState values, and how the fetchTasks call issued last has ended so far
\* ("none" before the first one).
InitialPage ==
  [ tasks |-> <<>>, isLoading |-> TRUE, pageIndex |-> 0, pageSize |-> 10,
    totalPages |-> 0, totalElements |-> 0, search |-> <<>>, latest |-> "none" ]

\* The backend is not part of the run, and no tasks page is mounted.
BackendAbsent ==
  /\ users = SeededUsers
  /\ refreshTokens = {}
  /\ issued = 0
  /\ redeemed = {}
  /\ tasks = {}
  /\ nextId = 1
  /\ response = NoResponse
  /\ reply = [r \in Requests |-> NoReply]
  /\ page = InitialPage
  /\ fetches = <<>>

\* The call a request is waiting for.
CallOf(p) == IF p = "retrying" THEN "retry" ELSE "initial"

Init ==
  /\ localStorage \in
       {EmptyStorage} \cup
       { [accessToken |-> p.accessToken, refreshToken |-> p.refreshToken,
          user |-> JSONstringify(u)] : p \in TokenPairs, u \in Users }
  /\ authState = [user |-> Null, isAuthenticated |-> FALSE, isLoading |-> TRUE]
  /\ href = "/"
  /\ kind = [r \in Requests |-> "none"]
  /\ pc = [r \in Requests |-> "idle"]
  /\ config = [r \in Requests |-> [_retry |-> FALSE, Authorization |-> Null]]
  /\ result = [r \in Requests |-> Pending]
  /\ renewData = [r \in Requests |-> NoData]
  /\ log = [r \in Requests |-> <<>>]
  /\ lastSent = [r \in Requests |-> Wire(Null, Null, Null)]
  /\ settles = [r \in Requests |-> 0]
  /\ logoutReturn = NotReturned
  /\ TableAbsent
  /\ BackendAbsent

\* No continuation of a settled api promise is waiting to run: such a
\* continuation is a microtask and runs before any other task.
NoMicrotask == \A r \in Requests : pc[r] # "settled"

\* Logical requests are numbered in the order they are issued.
NextToIssue(r) == \A q \in Requests : q < r => pc[q] # "idle"

\* The responses the server may give to a call of kind k.
ResponsesFor(k) ==
  { [status |-> s, data |-> NoData] : s \in {s \in Statuses : ~IsSuccess(s)} } \cup
  { [status |-> s, data |-> d] :
      s \in {s \in Statuses : IsSuccess(s)},
      d \in IF k \in {"auth", "refresh"} THEN AuthResponses ELSE {NoData} }

\* api.interceptors.request.use: the Authorization header the request leaves
\* with, given the header already on the config and the stored access token.
RequestInterceptorNoAttach(auth, token) == auth

RequestInterceptor(auth, token) ==
  IF Truthy(token) THEN Bearer(token) ELSE auth

\* The condition under which the response interceptor starts a renewal.
ShouldRenewEvery401(status, retried) == status = 401

ShouldRenewAnyError(status, retried) == ~IsSuccess(status) /\ ~retried

ShouldRenew(status, retried) == status = 401 /\ ~retried

\* localStorage after the renewal stored the new pair.
StoreRenewedAccessOnly(ls, data) == [ls EXCEPT !.accessToken = data.accessToken]

StoreRenewedAfterRetry(ls, data) == ls

StoreRenewedDropUser(ls, data) ==
  [accessToken |-> data.accessToken, refreshToken |-> data.refreshToken, user |-> Null]

StoreRenewed(ls, data) ==
  [ls EXCEPT !.accessToken = data.accessToken, !.refreshToken = data.refreshToken]

\* localStorage after removeItem of the three credential keys.
ClearSessionKeepUser(ls) == [ls EXCEPT !.accessToken = Null, !.refreshToken = Null]

ClearSession(ls) ==
  [ls EXCEPT !.accessToken = Null, !.refreshToken = Null, !.user = Null]

\* localStorage after login/signup stored the AuthResponse.
StoreSession(ls, data) ==
  [ls EXCEPT !.accessToken = data.accessToken, !.refreshToken = data.refreshToken,
             !.user = JSONstringify(data.user)]

\* The api promise of request r settles (resolve or reject) with the response
\* or error of the given call.
SettleAbandoned(r, state, call, resp) ==
  /\ pc' = [pc EXCEPT ![r] = "abandoned"]
  /\ UNCHANGED <<result, settles>>

Settle(r, state, call, resp) ==
  /\ result' = [result EXCEPT ![r] =
       [state |-> state, call |-> call, status |-> resp.status, data |-> resp.data]]
  /\ settles' = [settles EXCEPT ![r] = @ + 1]
  /\ pc' = [pc EXCEPT ![r] = "settled"]

\* api.get/post/put/delete issued by a caller: the request interceptor runs and
\* the initial attempt leaves.
ApiCall(r, k) ==
  /\ pc[r] = "idle"
  /\ NextToIssue(r)
  /\ NoMicrotask
  /\ kind' = [kind EXCEPT ![r] = k]
  /\ LET auth == RequestInterceptor(config[r].Authorization, localStorage.accessToken)
     IN /\ config' = [config EXCEPT ![r].Authorization = auth]
        /\ log' = [log EXCEPT ![r] = Append(@, Sent("initial"))]
        /\ lastSent' = [lastSent EXCEPT ![r] =
             Wire(auth, localStorage.accessToken, Null)]
  /\ pc' = [pc EXCEPT ![r] = "inflight"]
  /\ logoutReturn' = NotReturned
  /\ UNCHANGED <<localStorage, authState, href, result, renewData, settles>>
  /\ UNCHANGED <<tableVars, backendVars>>

\* A page's own api call (task list, task CRUD, profile, admin).
Request(r) == ApiCall(r, "task")

\* login: api.post('/api/auth/login') up to its await.
Login(r) == ApiCall(r, "auth")

\* signup: api.post('/api/auth/signup') up to its await.  The code after the
\* await is login's, so both are requests of kind "auth".
Signup(r) == ApiCall(r, "auth")

\* The caller is finished with request r: its config, promise and history are
\* garbage and the slot is free for the next logical request.
Release(r) ==
  /\ kind' = [kind EXCEPT ![r] = "none"]
  /\ pc' = [pc EXCEPT ![r] = "idle"]
  /\ config' = [config EXCEPT ![r] = [_retry |-> FALSE, Authorization |-> Null]]
  /\ result' = [result EXCEPT ![r] = Pending]
  /\ renewData' = [renewData EXCEPT ![r] = NoData]
  /\ log' = [log EXCEPT ![r] = <<>>]
  /\ lastSent' = [lastSent EXCEPT ![r] = Wire(Null, Null, Null)]
  /\ settles' = [settles EXCEPT ![r] = 0]

\* handleLogout of the header: logout(), then router.push("/login").  With a
\* stored refresh token logout runs up to the await of its
\* api.post('/api/auth/logout'); without one no request is made and its
\* finally block runs at once.
Logout(r) ==
  IF Truthy(localStorage.refreshToken)
  THEN ApiCall(r, "logout")
  ELSE /\ NoMicrotask
       /\ localStorage' = ClearSession(localStorage)
       /\ authState' = [authState EXCEPT !.user = Null, !.isAuthenticated = FALSE]
       /\ logoutReturn' = Returned("skipped", 0)
       /\ href' = IF logoutReturn'.promise = "resolved" THEN "/login" ELSE href
       /\ UNCHANGED <<kind, pc, config, result, renewData, log, lastSent, settles>>
       /\ UNCHANGED <<tableVars, backendVars>>

\* api.interceptors.response.use: the response of the initial attempt or of the
\* retry arrives.  A 2xx passes through; a first 401 marks the request retried
\* and, with a stored refresh token, sends the renewal call (axios.post, no
\* interceptor); every other error is rejected to the caller.
ResponseInterceptor(r, resp) ==
  /\ pc[r] \in {"inflight", "retrying"}
  /\ NoMicrotask
  /\ resp \in ResponsesFor(kind[r])
  /\ LET call == CallOf(pc[r])
         got == Append(log[r], Received(call, resp.status))
     IN IF IsSuccess(resp.status)
        THEN /\ Settle(r, "fulfilled", call, resp)
             /\ log' = [log EXCEPT ![r] = got]
             /\ UNCHANGED <<config, lastSent>>
        ELSE IF ShouldRenew(resp.status, config[r]._retry)
        THEN /\ config' = [config EXCEPT ![r]._retry = TRUE]
             /\ IF Truthy(localStorage.refreshToken)
                THEN /\ pc' = [pc EXCEPT ![r] = "renewing"]
                     /\ log' = [log EXCEPT ![r] = Append(got, Sent("renewal"))]
                     /\ lastSent' = [lastSent EXCEPT ![r] =
                          Wire(Null, Null, localStorage.refreshToken)]
                     /\ UNCHANGED <<result, settles>>
                ELSE /\ Settle(r, "rejected", call, resp)
                     /\ log' = [log EXCEPT ![r] = got]
                     /\ UNCHANGED lastSent
        ELSE /\ Settle(r, "rejected", call, resp)
             /\ log' = [log EXCEPT ![r] = got]
             /\ UNCHANGED <<config, lastSent>>
  /\ logoutReturn' = NotReturned
  /\ UNCHANGED <<localStorage, authState, href, kind, renewData>>
  /\ UNCHANGED <<tableVars, backendVars>>

\* The response of the renewal call arrives (the await inside the interceptor's
\* try block resumes).  Success: store the new pair, patch the header, resend
\* the original request through api (its request interceptor runs again).
\* Failure: the catch block clears the session, assigns window.location.href
\* and rejects with the renewal error.
RefreshResponse(r, resp) ==
  /\ pc[r] = "renewing"
  /\ NoMicrotask
  /\ resp \in ResponsesFor("refresh")
  /\ LET got == Append(log[r], Received("renewal", resp.status))
     IN IF IsSuccess(resp.status)
        THEN LET stored == StoreRenewed(localStorage, resp.data)
                 auth == RequestInterceptor(Bearer(resp.data.accessToken),
                                            stored.accessToken)
             IN /\ renewData' = [renewData EXCEPT ![r] = resp.data]
                /\ localStorage' = stored
                /\ config' = [config EXCEPT ![r].Authorization = auth]
                /\ log' = [log EXCEPT ![r] = Append(got, Sent("retry"))]
                /\ lastSent' = [lastSent EXCEPT ![r] =
                     Wire(auth, stored.accessToken, Null)]
                /\ pc' = [pc EXCEPT ![r] = "retrying"]
                /\ UNCHANGED <<href, result, settles>>
        ELSE /\ localStorage' = ClearSession(localStorage)
             /\ href' = "/login"
             /\ Settle(r, "rejected", "renewal", resp)
             /\ log' = [log EXCEPT ![r] = got]
             /\ UNCHANGED <<config, renewData, lastSent>>
  /\ logoutReturn' = NotReturned
  /\ UNCHANGED <<authState, kind>>
  /\ UNCHANGED <<tableVars, backendVars>>

\* A page's await on its api call resumes (the page handles the outcome).
RequestDone(r) ==
  /\ pc[r] = "settled"
  /\ kind[r] = "task"
  /\ Release(r)
  /\ logoutReturn' = NotReturned
  /\ UNCHANGED <<localStorage, authState, href>>
  /\ UNCHANGED <<tableVars, backendVars>>

\* login/signup after the await: on success store the tokens and the user and
\* set the store, and the login page's handler pushes /tasks; on rejection the
\* error propagates to the page, which shows it.
AuthDone(r) ==
  /\ pc[r] = "settled"
  /\ kind[r] = "auth"
  /\ IF result[r].state = "fulfilled"
     THEN /\ localStorage' = StoreSession(localStorage, result[r].data)
          /\ authState' = [authState EXCEPT !.user = result[r].data.user,
                                            !.isAuthenticated = TRUE]
          /\ href' = "/tasks"
     ELSE UNCHANGED <<localStorage, authState, href>>
  /\ Release(r)
  /\ logoutReturn' = NotReturned
  /\ UNCHANGED <<tableVars, backendVars>>

\* logout after the await: whatever the outcome, the finally block clears the
\* three keys and resets the store; handleLogout then pushes /login.
LogoutDone(r) ==
  /\ pc[r] = "settled"
  /\ kind[r] = "logout"
  /\ localStorage' = ClearSession(localStorage)
  /\ authState' = [authState EXCEPT !.user = Null, !.isAuthenticated = FALSE]
  /\ logoutReturn' = Returned(result[r].state, result[r].status)
  /\ href' = IF logoutReturn'.promise = "resolved" THEN "/login" ELSE href
  /\ Release(r)
  /\ UNCHANGED <<tableVars, backendVars>>

Next ==
  \E r \in Requests :
    \/ Request(r)
    \/ Login(r)
    \/ Signup(r)
    \/ Logout(r)
    \/ \E resp \in ResponsesFor(kind[r]) : ResponseInterceptor(r, resp)
    \/ \E resp \in ResponsesFor("refresh") : RefreshResponse(r, resp)
    \/ RequestDone(r)
    \/ AuthDone(r)
    \/ LogoutDone(r)

Spec == Init /\ [][Next]_vars

\* Every network call completes and the event loop runs every task that is
\* queued.  A response task waits while the continuation of another request
\* runs, so its handler is enabled again and again rather than continuously:
\* the task queue is first-in first-out, which strong fairness states.  A
\* continuation, once ready, stays ready until it runs.
FairSpec ==
  /\ Spec
  /\ \A r \in Requests :
       /\ SF_vars(\E resp \in ResponsesFor(kind[r]) : ResponseInterceptor(r, resp))
       /\ SF_vars(\E resp \in ResponsesFor("refresh") : RefreshResponse(r, resp))
       /\ WF_vars(RequestDone(r) \/ AuthDone(r) \/ LogoutDone(r))

(***************************************************************************)
(* initialize() of the auth store, run by every page when it mounts.       *)
(***************************************************************************)

\* JSON.parse succeeds on exactly the strings JSON.stringify produced.
Parseable(str) == \E u \in Users : JSONstringify(u) = str

JSONparse(str) == CHOOSE u \in Users : JSONstringify(u) = str

\* Values that may be found under the storage keys when a page loads,
\* including ones this code did not write.
StoredAccessTokens == {Null, ""} \cup {p.accessToken : p \in TokenPairs}

StoredRefreshTokens == {Null} \cup {p.refreshToken : p \in TokenPairs}

StoredUsers == {Null, "", "undefined", "{bad"} \cup {JSONstringify(u) : u \in Users}

\* The store when a page mounts: as created, or as login left it.
MountedAuthStates ==
  {[user |-> Null, isAuthenticated |-> FALSE, isLoading |-> TRUE]} \cup
  {[user |-> u, isAuthenticated |-> TRUE, isLoading |-> l] : u \in Users, l \in BOOLEAN}

\* The store after initialize() read the token and the user string.
InitializedTrusting(st, token, userStr) ==
  IF Truthy(token) /\ Truthy(userStr)
  THEN [user |-> IF Parseable(userStr) THEN JSONparse(userStr) ELSE Null,
        isAuthenticated |-> TRUE, isLoading |-> FALSE]
  ELSE [st EXCEPT !.isLoading = FALSE]

Initialized(st, token, userStr) ==
  IF Truthy(token) /\ Truthy(userStr)
  THEN IF Parseable(userStr)
       THEN [user |-> JSONparse(userStr), isAuthenticated |-> TRUE, isLoading |-> FALSE]
       ELSE [user |-> Null, isAuthenticated |-> FALSE, isLoading |-> FALSE]
  ELSE [st EXCEPT !.isLoading = FALSE]

\* No request is in flight and no logout has just returned.
PipelineIdle ==
  /\ href = "/"
  /\ kind = [r \in Requests |-> "none"]
  /\ pc = [r \in Requests |-> "idle"]
  /\ config = [r \in Requests |-> [_retry |-> FALSE, Authorization |-> Null]]
  /\ result = [r \in Requests |-> Pending]
  /\ renewData = [r \in Requests |-> NoData]
  /\ log = [r \in Requests |-> <<>>]
  /\ lastSent = [r \in Requests |-> Wire(Null, Null, Null)]
  /\ settles = [r \in Requests |-> 0]
  /\ logoutReturn = NotReturned

pipelineVars == <<href, kind, pc, config, result, renewData, log, lastSent,
                  settles, logoutReturn>>

Initialize ==
  /\ authState' = Initialized(authState, localStorage.accessToken, localStorage.user)
  /\ UNCHANGED localStorage
  /\ UNCHANGED pipelineVars
  /\ UNCHANGED <<tableVars, backendVars>>

MountInit ==
  /\ localStorage \in [accessToken : StoredAccessTokens,
                       refreshToken : StoredRefreshTokens,
                       user : StoredUsers]
  /\ authState \in MountedAuthStates
  /\ PipelineIdle
  /\ TableAbsent
  /\ BackendAbsent

MountNext == Initialize

MountSpec == MountInit /\ [][MountNext]_vars

(***************************************************************************)
(* The DataTable component: its event handlers and its renders.            *)
(***************************************************************************)

authVars == <<localStorage, authState, pipelineVars>>

\* table.setPageIndex: the index is clamped to [0, pageCount - 1] when the
\* pageCount option is set.
SetPageIndex(p, pag, index) ==
  LET maxPageIndex == IF p.pageCount = Undefined THEN index ELSE p.pageCount - 1
  IN [pag EXCEPT !.pageIndex = Max(0, Min(index, maxPageIndex))]

\* The table resets the page index when the filtered or sorted rows change,
\* unless pagination is manual.
AutoResetPageIndex(p, pag) ==
  IF IsServerSide(p) THEN pag ELSE [pag EXCEPT !.pageIndex = InitialPagination.pageIndex]

\* column.setFilterValue: an empty value removes the column's filter.
SetFilterValue(cf, id, value) ==
  LET others == SelectSeq(cf, LAMBDA f : f.id # id)
  IN IF value = <<>> THEN others
     ELSE IF \E k \in DOMAIN cf : cf[k].id = id
     THEN [k \in DOMAIN cf |-> IF cf[k].id = id THEN [id |-> id, value |-> value]
                                ELSE cf[k]]
     ELSE Append(cf, [id |-> id, value |-> value])

\* The four navigation buttons.
Buttons == {"first", "previous", "next", "last"}

\* onClick of a navigation button.
Navigate(button) ==
  /\ created # "none"
  /\ ~view.disabled[button]
  /\ LET idx == CurrentPageIndex(props, pagination)
         size == CurrentPageSize(props, pagination)
         pages == TotalPages(props, sorting, columnFilters, pagination)
     IN IF IsServerSide(props) /\ props.onPaginationChange
        THEN /\ event' = [handler |-> button, calls |->
                  <<[fn |-> "onPaginationChange",
                     index |-> TargetIndex(button, idx, pages), size |-> size]>>]
             /\ UNCHANGED <<pagination, view>>
        ELSE /\ pagination' = SetPageIndex(props, pagination,
                  TargetIndex(button, pagination.pageIndex, pages))
             /\ event' = NoCalls(button)
             /\ view' = Render(props, sorting, columnFilters, pagination')
  /\ UNCHANGED <<props, sorting, columnFilters, searchValue, created>>
  /\ UNCHANGED <<authVars, backendVars>>

First == Navigate("first")

Previous == Navigate("previous")

NextPage == Navigate("next")

LastPage == Navigate("last")

\* handleSearch: onChange of the search box.
HandleSearch(value) ==
  /\ created # "none"
  /\ view.search
  /\ value # searchValue
  /\ searchValue' = value
  /\ IF props.onSearchChange
     THEN /\ event' = [handler |-> "search", calls |->
               <<[fn |-> "onSearchChange", value |-> value]>>]
          /\ UNCHANGED <<columnFilters, pagination>>
     ELSE IF props.searchKey # Null
     THEN /\ columnFilters' = SetFilterValue(columnFilters, props.searchKey, value)
          /\ pagination' = AutoResetPageIndex(props, pagination)
          /\ event' = NoCalls("search")
     ELSE /\ event' = NoCalls("search")
          /\ UNCHANGED <<columnFilters, pagination>>
  /\ view' = Render(props, sorting, columnFilters', pagination')
  /\ UNCHANGED <<props, sorting, created>>
  /\ UNCHANGED <<authVars, backendVars>>

\* onSortingChange: a column header sets the sorting state.
SetSorting(so) ==
  /\ created # "none"
  /\ so # sorting
  /\ sorting' = so
  /\ pagination' = AutoResetPageIndex(props, pagination)
  /\ event' = NoEvent
  /\ view' = Render(props, sorting', columnFilters, pagination')
  /\ UNCHANGED <<props, columnFilters, searchValue, created>>
  /\ UNCHANGED <<authVars, backendVars>>

\* The parent renders the table again with one prop changed.
Rerender(prop, value) ==
  /\ created # "none"
  /\ value # props[prop]
  /\ props' = [props EXCEPT ![prop] = value]
  /\ pagination' = IF prop = "data" THEN AutoResetPageIndex(props', pagination)
                   ELSE pagination
  /\ event' = NoEvent
  /\ view' = Render(props', sorting, columnFilters, pagination')
  /\ UNCHANGED <<sorting, columnFilters, searchValue, created>>
  /\ UNCHANGED <<authVars, backendVars>>

\* The first render of a table instance.
TableInit ==
  /\ localStorage = EmptyStorage
  /\ authState = [user |-> Null, isAuthenticated |-> FALSE, isLoading |-> TRUE]
  /\ PipelineIdle
  /\ props \in PropsSet
  /\ sorting = <<>>
  /\ columnFilters = <<>>
  /\ searchValue = <<>>
  /\ pagination = InitialPagination
  /\ event = NoEvent
  /\ view = Render(props, sorting, columnFilters, pagination)
  /\ created = IF IsServerSide(props) THEN "server" ELSE "client"
  /\ BackendAbsent

TableNext ==
  \/ First
  \/ Previous
  \/ NextPage
  \/ LastPage
  \/ \E value \in Queries : HandleSearch(value)
  \/ \E so \in Sortings : SetSorting(so)
  \/ \E prop \in Dynamic : \E value \in PropDomains[prop] : Rerender(prop, value)

TableSpec == TableInit /\ [][TableNext]_vars

(***************************************************************************)
(* The service methods of the backend, each one transaction.               *)
(***************************************************************************)

\* Everything outside the backend's tables.
frontendVars == <<authVars, tableVars, reply, page, fetches>>

\* POST /api/auth/signup: a registered e-mail is refused; otherwise the user
\* is saved with role USER and gets a token pair.
AuthSignup(email) ==
  /\ issued < MaxIssued
  /\ IF users[email] # NoRole
     THEN /\ response' = Outcome("signup", email, Null, 0, "BadRequestException",
                                 NoTokens, <<>>)
          /\ UNCHANGED <<users, refreshTokens, issued>>
     ELSE LET out == CreateAuthResponse(refreshTokens, issued, email)
          IN /\ users' = [users EXCEPT ![email] = "USER"]
             /\ refreshTokens' = out.table
             /\ issued' = out.issued
             /\ response' = Outcome("signup", email, Null, 0, out.outcome,
                                    out.tokens, <<>>)
  /\ UNCHANGED <<redeemed, tasks, nextId>>
  /\ UNCHANGED frontendVars

\* POST /api/auth/login: authenticationManager.authenticate throws for an
\* unknown e-mail or a wrong password; otherwise the user's refresh tokens are
\* replaced by a new one.
AuthLogin(email, authenticated) ==
  /\ issued < MaxIssued
  /\ authenticated => users[email] # NoRole
  /\ LET out == IF authenticated THEN LoginIssue(refreshTokens, issued, email)
                ELSE Thrown(refreshTokens, issued, "BadCredentialsException")
     IN /\ refreshTokens' = out.table
        /\ issued' = out.issued
        /\ response' = Outcome("login", email, Null, 0, out.outcome, out.tokens, <<>>)
  /\ UNCHANGED <<users, redeemed, tasks, nextId>>
  /\ UNCHANGED frontendVars

\* POST /api/auth/refresh with the given refresh token.
AuthRefreshToken(token) ==
  /\ issued < MaxIssued
  /\ LET out == RefreshToken(refreshTokens, issued, token)
     IN /\ refreshTokens' = out.table
        /\ issued' = out.issued
        /\ response' = Outcome("refresh", out.user, token, 0, out.outcome,
                               out.tokens, <<>>)
        /\ redeemed' = IF out.outcome = "ok" THEN redeemed \cup {token} ELSE redeemed
  /\ UNCHANGED <<users, tasks, nextId>>
  /\ UNCHANGED frontendVars

\* POST /api/auth/logout with the given refresh token.
AuthLogout(token) ==
  /\ refreshTokens' = DeleteByToken(refreshTokens, token)
  /\ response' = Outcome("logout", Null, token, 0, "ok", NoTokens, <<>>)
  /\ UNCHANGED <<users, issued, redeemed, tasks, nextId>>
  /\ UNCHANGED frontendVars

\* Time passes the expiryDate of a stored refresh token.
TokenExpires(row) ==
  /\ row \in refreshTokens
  /\ ~row.expired
  /\ refreshTokens' = (refreshTokens \ {row}) \cup {[row EXCEPT !.expired = TRUE]}
  /\ response' = NoResponse
  /\ UNCHANGED <<users, issued, redeemed, tasks, nextId>>
  /\ UNCHANGED frontendVars

\* The database after the seed data was loaded and before any request.
AuthServiceInit ==
  /\ localStorage = EmptyStorage
  /\ authState = [user |-> Null, isAuthenticated |-> FALSE, isLoading |-> TRUE]
  /\ PipelineIdle
  /\ TableAbsent
  /\ BackendAbsent

AuthServiceNext ==
  \/ \E email \in Emails : AuthSignup(email)
  \/ \E email \in Emails, authenticated \in BOOLEAN : AuthLogin(email, authenticated)
  \/ \E token \in PresentableTokens : AuthRefreshToken(token)
  \/ \E token \in PresentableTokens : AuthLogout(token)
  \/ \E row \in refreshTokens : TokenExpires(row)

AuthServiceSpec == AuthServiceInit /\ [][AuthServiceNext]_vars

\* The task a create or update request describes, and its TaskResponse.
TaskRow(id, title, status, user) ==
  [id |-> id, title |-> title, status |-> status, user |-> user]

\* POST /api/tasks by an authenticated caller.
CreateTask(caller, request) ==
  /\ users[caller] # NoRole
  /\ nextId <= MaxTasks
  /\ LET task == TaskRow(nextId, request.title, StatusOr(request.status, "PENDING"),
                         caller)
     IN /\ tasks' = tasks \cup {task}
        /\ response' = [Outcome("create", caller, Null, task.id, "ok", NoTokens, <<task>>)
                          EXCEPT !.request = request]
  /\ nextId' = nextId + 1
  /\ UNCHANGED <<users, refreshTokens, issued, redeemed>>
  /\ UNCHANGED frontendVars

\* GET /api/tasks/{id}
GetTaskById(caller, id) ==
  /\ users[caller] # NoRole
  /\ LET access == CheckAccess(tasks, users, caller, id)
     IN response' = Outcome("get", caller, Null, id, access, NoTokens,
                            IF access = "ok" THEN SortById(FindById(tasks, id), FALSE)
                            ELSE <<>>)
  /\ UNCHANGED <<users, refreshTokens, issued, redeemed, tasks, nextId>>
  /\ UNCHANGED frontendVars

\* PUT /api/tasks/{id}: the title is replaced, the status only when the
\* request carries one.
UpdateTask(caller, id, request) ==
  /\ users[caller] # NoRole
  /\ LET access == CheckAccess(tasks, users, caller, id)
     IN IF access = "ok"
        THEN LET old == CHOOSE t \in FindById(tasks, id) : TRUE
                 task == TaskRow(id, request.title, StatusOr(request.status, old.status),
                                 old.user)
             IN /\ tasks' = (tasks \ {old}) \cup {task}
                /\ response' = [Outcome("update", caller, Null, id, access, NoTokens,
                                        <<task>>) EXCEPT !.request = request]
        ELSE /\ response' = [Outcome("update", caller, Null, id, access, NoTokens, <<>>)
                               EXCEPT !.request = request]
             /\ UNCHANGED tasks
  /\ UNCHANGED <<users, refreshTokens, issued, redeemed, nextId>>
  /\ UNCHANGED frontendVars

\* DELETE /api/tasks/{id}
DeleteTask(caller, id) ==
  /\ users[caller] # NoRole
  /\ LET access == CheckAccess(tasks, users, caller, id)
     IN /\ tasks' = IF access = "ok" THEN tasks \ FindById(tasks, id) ELSE tasks
        /\ response' = Outcome("delete", caller, Null, id, access, NoTokens, <<>>)
  /\ UNCHANGED <<users, refreshTokens, issued, redeemed, nextId>>
  /\ UNCHANGED frontendVars

\* GET /api/tasks?page=&size=&search=&sortBy=id&sortDir=
ListTasks(caller, pg, size, search, desc) ==
  /\ users[caller] # NoRole
  /\ response' = Outcome("list", caller, Null, 0, "ok", NoTokens,
                         GetTasks(tasks, users, caller, pg, size, search, desc).content)
  /\ UNCHANGED <<users, refreshTokens, issued, redeemed, tasks, nextId>>
  /\ UNCHANGED frontendVars

\* Task ids a request may name: every id the server can generate.
TaskIds == 1..MaxTasks

\* page and size parameters of a list request.
PageParams == {0, 1}

SizeParams == {1, 10}

\* The database with the administrator and two users registered.
TaskServiceInit ==
  /\ localStorage = EmptyStorage
  /\ authState = [user |-> Null, isAuthenticated |-> FALSE, isLoading |-> TRUE]
  /\ PipelineIdle
  /\ TableAbsent
  /\ users = [e \in Emails |-> IF e = "admin" THEN "ADMIN" ELSE "USER"]
  /\ refreshTokens = {}
  /\ issued = 0
  /\ redeemed = {}
  /\ tasks = {}
  /\ nextId = 1
  /\ response = NoResponse
  /\ reply = [r \in Requests |-> NoReply]
  /\ page = InitialPage
  /\ fetches = <<>>

TaskServiceNext ==
  \E caller \in Emails :
    \/ \E request \in TaskRequests : CreateTask(caller, request)
    \/ \E id \in TaskIds : GetTaskById(caller, id)
    \/ \E id \in TaskIds, request \in TaskRequests : UpdateTask(caller, id, request)
    \/ \E id \in TaskIds : DeleteTask(caller, id)
    \/ \E pg \in PageParams, size \in SizeParams, search \in Searches, desc \in BOOLEAN :
         ListTasks(caller, pg, size, search, desc)

TaskServiceSpec == TaskServiceInit /\ [][TaskServiceNext]_vars

(***************************************************************************)
(* The tasks page: fetchTasks, the effect that calls it, and the callbacks *)
(* it hands to its DataTable.  The page belongs to a signed-in user and    *)
(* the tasks on the server do not change while it is open.                 *)
(***************************************************************************)

\* Tasks of the signed-in user on the server while the page is open.
StoredTasks == 12

\* fetchTasks calls that can be awaiting their response at the same time.
MaxInFlight == 3

SampleTasks == {TaskRow(i, Titles[(i % 3) + 1], "PENDING", "u1") : i \in 1..StoredTasks}

\* response.data of GET /api/tasks for the parameters of a fetchTasks call.
PageResponse(fetch) ==
  GetTasks(tasks, users, authState.user, fetch.pageIndex, fetch.pageSize,
           fetch.search, TRUE)

\* fetchTasks up to its await: setIsLoading(true) and the request with the
\* pageIndex, pageSize and search of the render that created the callback.
\* The pending call issued last is marked as the newest.
FetchTasks(pg) ==
  /\ page' = [pg EXCEPT !.isLoading = TRUE, !.latest = "pending"]
  /\ fetches' = Append([j \in DOMAIN fetches |-> [fetches[j] EXCEPT !.newest = FALSE]],
       [pageIndex |-> pg.pageIndex, pageSize |-> pg.pageSize, search |-> pg.search,
        newest |-> TRUE])

\* A state change of the page: when pageIndex, pageSize or search changed,
\* fetchTasks is a new callback and the effect calls it.
SetState(pg) ==
  IF <<pg.pageIndex, pg.pageSize, pg.search>> =
     <<page.pageIndex, page.pageSize, page.search>>
  THEN page' = pg /\ UNCHANGED fetches
  ELSE Len(fetches) < MaxInFlight /\ FetchTasks(pg)

\* The effect after the first render of the signed-in page.
FetchOnMount ==
  /\ page.latest = "none"
  /\ authState.isAuthenticated
  /\ FetchTasks(page)
  /\ UNCHANGED <<authVars, tableVars, serverVars, reply>>

\* onPaginationChange, called by a navigation button of the DataTable that
\* is not disabled.
OnPaginationChange(button) ==
  /\ page.latest # "none"
  /\ ~Disabled(page.pageIndex, page.totalPages)[button]
  /\ SetState([page EXCEPT
        !.pageIndex = TargetIndex(button, page.pageIndex, page.totalPages),
        !.pageSize = page.pageSize])
  /\ UNCHANGED <<authVars, tableVars, serverVars, reply>>

\* onSearchChange, called by the search box of the DataTable.
OnSearchChange(value) ==
  /\ page.latest # "none"
  /\ SetState([page EXCEPT !.search = value, !.pageIndex = 0])
  /\ UNCHANGED <<authVars, tableVars, serverVars, reply>>

\* The response of the i-th pending fetchTasks call arrives and the call
\* resumes after its await: on success the three setters run, on failure the
\* catch block logs; the finally block ends the loading state.
FetchResponse(i, ok) ==
  /\ i \in DOMAIN fetches
  /\ LET fetch == fetches[i]
         data == PageResponse(fetch)
         newest == fetch.newest
         shown == IF ok
                  THEN [page EXCEPT !.tasks = data.content,
                                    !.totalPages = data.totalPages,
                                    !.totalElements = data.totalElements]
                  ELSE page
     IN page' = [shown EXCEPT !.isLoading = FALSE,
                              !.latest = IF newest
                                         THEN IF ok THEN "ok" ELSE "failed"
                                         ELSE page.latest]
  /\ fetches' = [j \in 1..(Len(fetches) - 1) |->
                   IF j < i THEN fetches[j] ELSE fetches[j + 1]]
  /\ UNCHANGED <<authVars, tableVars, serverVars, reply>>

\* The signed-in user's tasks page after its first render.
PageInit ==
  /\ localStorage = StoreSession(EmptyStorage, CreateAuthResponse({}, 0, "u1").tokens
                                               @@ [user |-> "u1"])
  /\ authState = [user |-> "u1", isAuthenticated |-> TRUE, isLoading |-> FALSE]
  /\ href = "/tasks"
  /\ kind = [r \in Requests |-> "none"]
  /\ pc = [r \in Requests |-> "idle"]
  /\ config = [r \in Requests |-> [_retry |-> FALSE, Authorization |-> Null]]
  /\ result = [r \in Requests |-> Pending]
  /\ renewData = [r \in Requests |-> NoData]
  /\ log = [r \in Requests |-> <<>>]
  /\ lastSent = [r \in Requests |-> Wire(Null, Null, Null)]
  /\ settles = [r \in Requests |-> 0]
  /\ logoutReturn = NotReturned
  /\ TableAbsent
  /\ users = [SeededUsers EXCEPT !["u1"] = "USER"]
  /\ refreshTokens = CreateAuthResponse({}, 0, "u1").table
  /\ issued = 1
  /\ redeemed = {}
  /\ tasks = SampleTasks
  /\ nextId = StoredTasks + 1
  /\ response = NoResponse
  /\ reply = [r \in Requests |-> NoReply]
  /\ page = InitialPage
  /\ fetches = <<>>

PageNext ==
  \/ FetchOnMount
  \/ \E button \in Buttons : OnPaginationChange(button)
  \/ \E value \in Queries : OnSearchChange(value)
  \/ \E i \in DOMAIN fetches, ok \in BOOLEAN : FetchResponse(i, ok)

PageSpec == PageInit /\ [][PageNext]_vars

(***************************************************************************)
(* The request pipeline of one signed-in browser against AuthService: the  *)
(* answer to a renewal call is the one refreshToken gives for the token    *)
(* the call carries, at the moment the call reaches the server.            *)
(***************************************************************************)

\* The HTTP response to POST /api/auth/refresh for the outcome of the service.
RefreshReply(out, token) ==
  IF out.outcome = "ok"
  THEN [ status |-> 200,
         data |-> [accessToken |-> out.tokens.accessToken,
                   refreshToken |-> out.tokens.refreshToken, user |-> out.user],
         presented |-> token ]
  ELSE [status |-> 401, data |-> NoData, presented |-> token]

\* What the interceptor's await receives of a reply.
Delivered(rep) == [status |-> rep.status, data |-> rep.data]

\* The renewal call of request r reaches the server and refreshToken runs.
\* The server stops answering when the next pair would be one the browser
\* side of the model has no name for.
ServerRefresh(r) ==
  /\ pc[r] = "renewing"
  /\ reply[r] = NoReply
  /\ LET token == lastSent[r].body
         out == RefreshToken(refreshTokens, issued, token)
         rep == RefreshReply(out, token)
     IN /\ Delivered(rep) \in ResponsesFor("refresh")
        /\ refreshTokens' = out.table
        /\ issued' = out.issued
        /\ redeemed' = IF out.outcome = "ok" THEN redeemed \cup {token} ELSE redeemed
        /\ response' = Outcome("refresh", out.user, token, 0, out.outcome, out.tokens, <<>>)
        /\ reply' = [reply EXCEPT ![r] = rep]
  /\ UNCHANGED <<users, tasks, nextId, page, fetches>>
  /\ UNCHANGED <<authVars, tableVars>>

\* The answer of the server arrives at the interceptor.
Deliver(r) ==
  /\ reply[r] # NoReply
  /\ RefreshResponse(r, Delivered(reply[r]))

\* A page issues an api call; a slot whose request went through a renewal is
\* not used again.
RaceRequest(r) ==
  /\ reply[r] = NoReply
  /\ Request(r)

\* The first generated pair is stored in the browser and on the server: the
\* user has logged in and is on the tasks page.
RaceInit ==
  /\ localStorage = StoreSession(EmptyStorage, CreateAuthResponse({}, 0, "u1").tokens
                                               @@ [user |-> "u1"])
  /\ authState = [user |-> "u1", isAuthenticated |-> TRUE, isLoading |-> FALSE]
  /\ href = "/tasks"
  /\ kind = [r \in Requests |-> "none"]
  /\ pc = [r \in Requests |-> "idle"]
  /\ config = [r \in Requests |-> [_retry |-> FALSE, Authorization |-> Null]]
  /\ result = [r \in Requests |-> Pending]
  /\ renewData = [r \in Requests |-> NoData]
  /\ log = [r \in Requests |-> <<>>]
  /\ lastSent = [r \in Requests |-> Wire(Null, Null, Null)]
  /\ settles = [r \in Requests |-> 0]
  /\ logoutReturn = NotReturned
  /\ TableAbsent
  /\ users = [SeededUsers EXCEPT !["u1"] = "USER"]
  /\ refreshTokens = CreateAuthResponse({}, 0, "u1").table
  /\ issued = 1
  /\ redeemed = {}
  /\ tasks = {}
  /\ nextId = 1
  /\ response = NoResponse
  /\ reply = [r \in Requests |-> NoReply]
  /\ page = InitialPage
  /\ fetches = <<>>

RaceNext ==
  \E r \in Requests :
    \/ RaceRequest(r)
    \/ \E resp \in ResponsesFor(kind[r]) : ResponseInterceptor(r, resp)
    \/ ServerRefresh(r)
    \/ Deliver(r)
    \/ RequestDone(r)

RaceSpec == RaceInit /\ [][RaceNext]_vars

(***************************************************************************)
(* Properties                                                              *)
(***************************************************************************)

\* Number of renewal calls sent on behalf of request r.
Renewals(r) ==
  Cardinality({i \in DOMAIN log[r] : log[r][i] = Sent("renewal")})

\* Number of times the original request of r was resent.
Retries(r) ==
  Cardinality({i \in DOMAIN log[r] : log[r][i] = Sent("retry")})

\* The most recent log entry of r is e.
Last(r, e) == Len(log[r]) > 0 /\ log[r][Len(log[r])] = e

\* C1: for every logical request the renewal endpoint is called at most once,
\* and a 401 answer to the retried request is rejected to the caller (with
\* that 401) without another renewal call.
C1_SingleRenewal ==
  \A r \in Requests :
    /\ Renewals(r) <= 1
    /\ Last(r, Received("retry", 401)) =>
         /\ pc[r] = "settled"
         /\ result[r].state = "rejected"
         /\ result[r].call = "retry"
         /\ result[r].status = 401

C1_Witness ==
  \E r \in Requests :
    /\ Last(r, Received("retry", 401))
    /\ Renewals(r) = 1
    /\ result[r].state = "rejected"

\* C2: at the step that handles a successful renewal response, the stored
\* accessToken and refreshToken become the returned pair and the original
\* request is resent, for the first and only time, with Authorization
\* 'Bearer <returned access token>'; no request is ever resent twice.
C2_RenewalStoresAndRetries ==
  /\ [][\A r \in Requests :
          (pc[r] = "renewing" /\ pc'[r] # "renewing"
             /\ \E s \in Statuses : IsSuccess(s) /\ Received("renewal", s) \in
                  {log'[r][i] : i \in DOMAIN log'[r]}) =>
            /\ renewData'[r] \in AuthResponses
            /\ localStorage'.accessToken = renewData'[r].accessToken
            /\ localStorage'.refreshToken = renewData'[r].refreshToken
            /\ pc'[r] = "retrying"
            /\ Retries(r) = 0
            /\ Retries(r)' = 1
            /\ lastSent'[r].auth = Bearer(renewData'[r].accessToken)]_vars
  /\ [](\A r \in Requests : Retries(r) <= 1)

\* The scenario of the spec: tokens A1/R1 stored, renewal returns A2/R2.
C2_Witness ==
  \E r \in Requests :
    /\ pc[r] = "retrying"
    /\ renewData[r].accessToken = "A2"
    /\ renewData[r].refreshToken = "R2"
    /\ localStorage.accessToken = "A2"
    /\ localStorage.refreshToken = "R2"
    /\ lastSent[r].auth = "Bearer A2"
    /\ config[r].Authorization = "Bearer A2"

\* C3: when the renewal call of a request fails (any non-2xx answer or a
\* transport failure), the three credential keys are absent, the browser is
\* sent to /login, and the caller is rejected with the renewal's error.
C3_RenewalFailureClears ==
  \A r \in Requests : \A s \in Statuses :
    (~IsSuccess(s) /\ Last(r, Received("renewal", s))) =>
      /\ localStorage = EmptyStorage
      /\ href = "/login"
      /\ pc[r] = "settled"
      /\ result[r].state = "rejected"
      /\ result[r].call = "renewal"
      /\ result[r].status = s

C3_Witness ==
  \E r \in Requests :
    /\ Last(r, Received("renewal", 0))
    /\ result[r].state = "rejected"
    /\ result[r].call = "renewal"
    /\ localStorage = EmptyStorage
    /\ href = "/login"

\* C4: when a request gets a first-time 401 and no refresh token is stored
\* (the request is marked retried, no renewal call was sent, the 401 is what
\* the caller gets), the three credential keys are absent and the browser has
\* been sent to /login.
C4_NoRefreshTokenClears ==
  \A r \in Requests :
    (pc[r] = "settled" /\ config[r]._retry /\ Renewals(r) = 0) =>
      /\ localStorage = EmptyStorage
      /\ href = "/login"

\* C5: every request that leaves through api (initial attempt or retry)
\* carries 'Bearer <accessToken stored when it left>' if one was stored, and
\* no Authorization header otherwise.
C5_TokenAttachment ==
  \A r \in Requests :
    pc[r] \in {"inflight", "retrying"} =>
      lastSent[r].auth =
        IF lastSent[r].stored # Null THEN Bearer(lastSent[r].stored) ELSE Null

\* One request is in flight without a header (sent while logged out) while a
\* retry is in flight with the renewed token.
C5_Witness ==
  \E r, q \in Requests :
    /\ pc[r] = "inflight"
    /\ lastSent[r].stored = Null
    /\ lastSent[r].auth = Null
    /\ pc[q] = "retrying"
    /\ lastSent[q].stored = "A2"
    /\ lastSent[q].auth = "Bearer A2"

\* C6: in every reachable state accessToken and refreshToken are both present
\* or both absent, and user is present iff both tokens are.
C6_SessionConsistent ==
  /\ (localStorage.accessToken # Null) <=> (localStorage.refreshToken # Null)
  /\ (localStorage.user # Null) <=>
       (localStorage.accessToken # Null /\ localStorage.refreshToken # Null)

HasTokens == localStorage.accessToken # Null \/ localStorage.refreshToken # Null

\* C7: tokens appear in empty storage only at the step in which login or signup
\* resumes after a successful call; in particular, once logout has cleared the
\* session they do not reappear before the next successful login/signup.
C7_TokensAppearOnlyOnLogin ==
  [][(~HasTokens /\ HasTokens') =>
       \E r \in Requests :
         /\ kind[r] = "auth"
         /\ pc[r] = "settled"
         /\ result[r].state = "fulfilled"
         /\ pc'[r] = "idle"]_vars

\* The calls of one request in their only possible order.
CallSequence == <<"initial", "initial", "renewal", "renewal", "retry", "retry">>

\* l is a prefix of: initial sent, initial answered, renewal sent, renewal
\* answered, retry sent, retry answered; the renewal is sent only after a 401,
\* the retry only after a 2xx renewal answer.
CallOrder(l) ==
  /\ Len(l) <= Len(CallSequence)
  /\ \A i \in DOMAIN l :
       /\ l[i].ev = (IF i % 2 = 1 THEN "send" ELSE "recv")
       /\ l[i].call = CallSequence[i]
  /\ Len(l) >= 3 => l[2].status = 401
  /\ Len(l) >= 5 => IsSuccess(l[4].status)

\* C8: within one logical request the calls occur in the order initial
\* attempt, renewal (only after a 401), retry (only after the renewal
\* succeeded), and the retry leaves only after the renewal response was received
\* and its access token stored.
C8_CallOrder ==
  \A r \in Requests :
    /\ CallOrder(log[r])
    /\ pc[r] = "retrying" =>
         /\ renewData[r] \in AuthResponses
         /\ lastSent[r].stored = renewData[r].accessToken

C8_Witness ==
  \E r \in Requests :
    /\ Len(log[r]) = 6
    /\ log[r][2] = Received("initial", 401)
    /\ log[r][4] = Received("renewal", 200)
    /\ log[r][5] = Sent("retry")
    /\ log[r][6] = Received("retry", 200)

\* C9: the api promise of a request settles at most once, and (given that
\* every network call completes) every request that was sent eventually
\* settles.
C9_SettlesExactlyOnce ==
  /\ [](\A r \in Requests :
          /\ settles[r] <= 1
          /\ (pc[r] = "settled") <=> (settles[r] = 1)
          /\ (pc[r] = "settled") <=> (result[r].state # "pending"))
  /\ \A r \in Requests : (pc[r] = "inflight") ~> (pc[r] = "settled")

\* A request that went through renewal and retry has settled, once.
C9_Witness ==
  \E r \in Requests :
    /\ pc[r] = "settled"
    /\ settles[r] = 1
    /\ Renewals(r) = 1
    /\ Retries(r) = 1

\* C10: at the step in which an api call is answered with a 2xx, with an error
\* status other than 401 or with no response at all, the promise settles with
\* exactly that answer (resolved for 2xx, rejected otherwise), no renewal or
\* retry is sent, no storage key changes and no navigation happens.
C10_PassThrough ==
  [][\A r \in Requests : \A s \in Statuses \ {401} :
       (/\ pc[r] \in {"inflight", "retrying"}
        /\ Len(log'[r]) > Len(log[r])
        /\ log'[r][Len(log[r]) + 1] = Received(CallOf(pc[r]), s)) =>
         /\ log'[r] = Append(log[r], Received(CallOf(pc[r]), s))
         /\ pc'[r] = "settled"
         /\ result'[r].state = (IF IsSuccess(s) THEN "fulfilled" ELSE "rejected")
         /\ result'[r].call = CallOf(pc[r])
         /\ result'[r].status = s
         /\ config' = config
         /\ localStorage' = localStorage
         /\ authState' = authState
         /\ href' = href]_vars

\* A 403 was delivered while a session was stored and no navigation to /login
\* had happened.
C10_Witness ==
  \E r \in Requests :
    /\ pc[r] = "settled"
    /\ result[r].state = "rejected"
    /\ result[r].status = 403
    /\ Renewals(r) = 0
    /\ localStorage.accessToken # Null
    /\ href # "/login"

\* C11: whenever logout() has just returned, whether its server call was
\* fulfilled, rejected by the server, failed on the network or was skipped for
\* want of a refresh token, its promise resolved (it never rejects), the three
\* storage keys are absent and the store holds user = null,
\* isAuthenticated = false.
C11_LogoutAlwaysClears ==
  logoutReturn.promise # "none" =>
    /\ logoutReturn.promise = "resolved"
    /\ localStorage = EmptyStorage
    /\ authState.user = Null
    /\ ~authState.isAuthenticated

\* A logout whose server call failed on the network has returned.
C11_Witness ==
  /\ logoutReturn.promise = "resolved"
  /\ logoutReturn.api = "rejected"
  /\ logoutReturn.status = 0

\* C12: a step of initialize() that finds an access token and a user string
\* that JSON.parse rejects sets the store to user = null,
\* isAuthenticated = false, isLoading = false and leaves the three storage
\* keys as they were.
C12_UnparseableUserResets ==
  [][(/\ Truthy(localStorage.accessToken)
      /\ Truthy(localStorage.user)
      /\ \A u \in Users : localStorage.user # JSONstringify(u)) =>
       /\ authState' = [user |-> Null, isAuthenticated |-> FALSE, isLoading |-> FALSE]
       /\ localStorage' = localStorage]_vars

\* initialize() has run over a token and an unparseable user string (no page
\* mounts with the store already reset and loaded).
C12_Witness ==
  /\ localStorage.accessToken = "A1"
  /\ localStorage.user = "{bad"
  /\ authState = [user |-> Null, isAuthenticated |-> FALSE, isLoading |-> FALSE]

\* C13: the step that handles a successful renewal response (the request goes
\* from awaiting the renewal to awaiting its retry) leaves the stored user value
\* and the store (user, isAuthenticated, isLoading) as they were; only the
\* accessToken and refreshToken keys may differ.
C13_RenewalFrame ==
  [][\A r \in Requests :
       (pc[r] = "renewing" /\ pc'[r] = "retrying") =>
         /\ localStorage'.user = localStorage.user
         /\ authState' = authState]_vars

\* A renewal succeeded in a logged-in session: the new pair is stored next to
\* the user written at login.
C13_Witness ==
  \E r \in Requests :
    /\ pc[r] = "retrying"
    /\ localStorage.accessToken = renewData[r].accessToken
    /\ localStorage.user = JSONstringify("u1")
    /\ authState.isAuthenticated

\* C14: with pageCount supplied a navigation button never changes the
\* pagination state the table keeps and invokes onPaginationChange; with
\* pageCount not supplied every navigation button changes that state and
\* invokes no callback.
C14_ModeExclusiveNavigation ==
  [][event'.handler \in Buttons =>
       IF props.pageCount # Undefined
       THEN /\ pagination' = pagination
            /\ Len(event'.calls) = 1
            /\ event'.calls[1].fn = "onPaginationChange"
       ELSE /\ pagination' # pagination
            /\ event'.calls = <<>>]_vars

\* C15, as stated: first/previous are disabled iff the current page index is
\* 0, next/last iff it is >= totalPages - 1, and therefore all four are
\* disabled when there are zero or one pages.
C15_DisabledWithCorollary ==
  created # "none" =>
    LET idx == CurrentPageIndex(props, pagination)
        pages == TotalPages(props, sorting, columnFilters, pagination)
    IN /\ view.disabled.first <=> idx = 0
       /\ view.disabled.previous <=> idx = 0
       /\ view.disabled.next <=> idx >= pages - 1
       /\ view.disabled.last <=> idx >= pages - 1
       /\ pages <= 1 => \A b \in Buttons : view.disabled[b]

\* C15, amended: first/previous are disabled iff the current page index is 0
\* and next/last iff it is >= totalPages - 1, in both modes; with zero or one
\* pages next and last are disabled, and all four when the index is 0.
C15_DisabledControls ==
  created # "none" =>
    LET idx == CurrentPageIndex(props, pagination)
        pages == TotalPages(props, sorting, columnFilters, pagination)
    IN /\ view.disabled.first <=> idx = 0
       /\ view.disabled.previous <=> idx = 0
       /\ view.disabled.next <=> idx >= pages - 1
       /\ view.disabled.last <=> idx >= pages - 1
       /\ pages <= 1 => view.disabled.next /\ view.disabled.last
       /\ (pages <= 1 /\ idx = 0) => \A b \in Buttons : view.disabled[b]

\* A server-mode table whose pageIndex is past its zero pages: next and last
\* are disabled, first and previous are not.
C15_Witness ==
  /\ props.pageCount = 0
  /\ props.pageIndex = 2
  /\ view.disabled.next /\ view.disabled.last
  /\ ~view.disabled.first /\ ~view.disabled.previous

Matching == {i \in DOMAIN props.data :
               \A k \in DOMAIN columnFilters :
                 IncludesString(props.data[i][columnFilters[k].id],
                                columnFilters[k].value)}

\* Row i of data comes before row j under the current sorting.
ComesBefore(i, j) ==
  IF sorting = <<>> \/ props.data[i][sorting[1].id] = props.data[j][sorting[1].id]
  THEN i < j
  ELSE IF sorting[1].desc
       THEN props.data[i][sorting[1].id] > props.data[j][sorting[1].id]
       ELSE props.data[i][sorting[1].id] < props.data[j][sorting[1].id]

\* The number of matching rows that come before row i.
Position(i) == Cardinality({j \in Matching : ComesBefore(j, i)})

\* The entity ids on the screen, top to bottom.
Displayed ==
  [k \in {k \in DOMAIN view.body : view.body[k].row = "data"} |-> view.body[k].id]

\* C17: in client mode the rows on the screen are, in order, exactly the rows
\* of the full dataset that pass the current filter, ordered by the current
\* sorting, that fall into the current page window; this holds in every
\* reachable state, so also when the filter is changed after a sort or a page
\* change.
C17_FilterSortPaginate ==
  (created # "none" /\ props.pageCount = Undefined /\ ~props.isLoading) =>
    LET start == pagination.pageIndex * pagination.pageSize
        window == {i \in Matching :
                     Position(i) >= start /\ Position(i) < start + pagination.pageSize}
    IN /\ Len(Displayed) = Cardinality(window)
       /\ \A i \in window : Displayed[Position(i) - start + 1] = props.data[i].id

\* The search box was used on a sorted client-mode table and rows are shown.
C17_Witness ==
  /\ props.pageCount = Undefined
  /\ ~props.isLoading
  /\ sorting # <<>>
  /\ columnFilters # <<>>
  /\ event.handler = "search"
  /\ Len(Displayed) > 1

\* C18: the body is one loading row spanning all columns whenever isLoading is
\* true, whatever the data; otherwise one no-data row spanning all columns when
\* the resolved row set is empty; otherwise one row per resolved entity, in
\* order, and no placeholder row.
C18_BodyRows ==
  created # "none" =>
    LET resolved == RowModel(props, sorting, columnFilters, pagination)
    IN IF props.isLoading
       THEN view.body = <<[row |-> "loading", colSpan |-> Len(props.columns), id |-> 0]>>
       ELSE IF resolved = <<>>
       THEN view.body = <<[row |-> "empty", colSpan |-> Len(props.columns), id |-> 0]>>
       ELSE /\ Len(view.body) = Len(resolved)
            /\ \A k \in DOMAIN resolved :
                 view.body[k].row = "data" /\ view.body[k].id = resolved[k].id

\* A table that is loading while it holds rows shows only the loading row.
C18_Witness ==
  /\ props.isLoading
  /\ props.data # <<>>
  /\ Len(view.body) = 1
  /\ view.body[1].row = "loading"

\* C19: with totalElements supplied the count text shows that total,
\* start = pageIndex * pageSize + 1 and end = min((pageIndex + 1) * pageSize,
\* totalElements); without it, page pageIndex + 1 of totalPages, or of 1 when
\* totalPages is 0.
C19_CountText ==
  created # "none" =>
    LET idx == CurrentPageIndex(props, pagination)
        size == CurrentPageSize(props, pagination)
        pages == TotalPages(props, sorting, columnFilters, pagination)
    IN IF props.totalElements # Undefined
       THEN /\ view.text.form = "range"
            /\ view.text.total = props.totalElements
            /\ view.text.start = idx * size + 1
            /\ view.text.end <= (idx + 1) * size
            /\ view.text.end <= props.totalElements
            /\ view.text.end \in {(idx + 1) * size, props.totalElements}
       ELSE /\ view.text.form = "page"
            /\ view.text.page = idx + 1
            /\ view.text.pages = IF pages = 0 THEN 1 ELSE pages

\* The last, partly filled page: the end of the range is the total.
C19_Witness ==
  /\ props.totalElements = MaxRows
  /\ props.pageIndex = 2
  /\ props.pageSize = 5
  /\ props.pageCount = 3
  /\ view.text.start = 11
  /\ view.text.end = MaxRows

\* C20: the mode of a table instance (server iff pageCount is supplied, 0
\* included) is the one it was created in, at every later render.
C20_ModeFixedAtCreation ==
  created # "none" => (created = "server" <=> props.pageCount # Undefined)

(***************************************************************************)
(* The backend services.                                                   *)
(***************************************************************************)

\* The refresh tokens the server has generated so far.
Generated == {GenerateTokens(n).refreshToken : n \in 1..issued}

\* C21: on the server a refresh token is single-use.  A refresh call that
\* succeeds presented a stored token, deletes it, and stores and returns a
\* pair generated by this call; a refresh call presenting a token that an
\* earlier refresh exchanged is rejected as unauthorized, returns no tokens,
\* generates none and leaves the table as it was.
C21_RefreshSingleUse ==
  [][ response'.op = "refresh" =>
        LET token == response'.token
        IN /\ response'.outcome = "ok" =>
                /\ FindByToken(refreshTokens, token) # {}
                /\ FindByToken(refreshTokens', token) = {}
                /\ token \in redeemed'
                /\ response'.tokens.refreshToken \notin Generated
                /\ response'.tokens.accessToken # Null
                /\ FindByToken(refreshTokens', response'.tokens.refreshToken) =
                     {TokenRow(response'.tokens.refreshToken, response'.caller, FALSE)}
           /\ token \in redeemed =>
                /\ response'.outcome = "UnauthorizedException"
                /\ response'.tokens = NoTokens
                /\ issued' = issued
                /\ refreshTokens' = refreshTokens ]_vars

\* A refresh call presented a token that an earlier refresh had exchanged,
\* while the pair that exchange returned is still stored.
C21_Witness ==
  /\ response.op = "refresh"
  /\ response.token \in redeemed
  /\ response.outcome = "UnauthorizedException"
  /\ refreshTokens # {}

\* The owner of the stored task with the given id.
OwnerOf(id) == (CHOOSE t \in FindById(tasks, id) : TRUE).user

\* C22: a caller who is not an administrator cannot read, update or delete
\* another user's task: getTaskById, updateTask and deleteTask on it fail with
\* UnauthorizedException, return nothing and leave the tasks table as it was,
\* and every task getTasks returns to such a caller is the caller's own.  An
\* administrator's call on any stored task succeeds, and an administrator's
\* unfiltered list holds every stored task.
C22_TaskAccessControl ==
  [][ LET r == response'
      IN /\ r.op \in {"get", "update", "delete"} /\ FindById(tasks, r.id) # {} =>
              IF users[r.caller] # "ADMIN" /\ OwnerOf(r.id) # r.caller
              THEN /\ r.outcome = "UnauthorizedException"
                   /\ r.content = <<>>
                   /\ tasks' = tasks
              ELSE r.outcome = "ok"
         /\ r.op = "list" /\ users[r.caller] # "ADMIN" =>
              \A i \in DOMAIN r.content : r.content[i].user = r.caller
         /\ \A t \in tasks :
              \E i \in 1..Cardinality(tasks) :
                GetTasks(tasks, users, "admin", 0, MaxTasks, <<>>, FALSE).content[i] = t
    ]_vars

\* A user was refused the deletion of a task another user owns.
C22_Witness ==
  /\ response.op = "delete"
  /\ response.outcome = "UnauthorizedException"
  /\ users[response.caller] = "USER"
  /\ FindById(tasks, response.id) # {}
  /\ OwnerOf(response.id) \notin {response.caller, "admin"}

\* C23: a task keeps the values of its last create or update until it is
\* deleted, and is gone for good afterwards.  A successful create or update
\* stores and returns the title of its request and the status of its request
\* (for a request without one: PENDING on create, the stored status on
\* update); the stored row changes in no other step but a successful delete;
\* a read by id returns the stored row, and the owner's unfiltered list holds
\* it; after a successful delete the id is never stored again and every read
\* of it fails with ResourceNotFoundException.
C23_TaskLifecycle ==
  [][ LET r == response'
      IN /\ r.op \in {"create", "update"} /\ r.outcome = "ok" =>
              /\ FindById(tasks', r.id) = {r.content[1]}
              /\ r.content[1].title = r.request.title
              /\ r.content[1].status =
                   IF r.request.status # Null THEN r.request.status
                   ELSE IF r.op = "create" THEN "PENDING"
                   ELSE (CHOOSE t \in FindById(tasks, r.id) : TRUE).status
              /\ r.op = "create" => r.content[1].user = r.caller /\ r.id = nextId
         /\ \A id \in TaskIds :
              FindById(tasks', id) # FindById(tasks, id) =>
                r.id = id /\ r.outcome = "ok" /\ r.op \in {"create", "update", "delete"}
         /\ r.op = "delete" /\ r.outcome = "ok" => FindById(tasks', r.id) = {}
         /\ \A id \in 1..(nextId - 1) :
              FindById(tasks, id) = {} => FindById(tasks', id) = {}
         /\ r.op = "get" =>
              IF FindById(tasks, r.id) = {}
              THEN r.outcome = "ResourceNotFoundException" /\ r.content = <<>>
              ELSE r.caller = OwnerOf(r.id) =>
                     r.outcome = "ok" /\ {r.content[1]} = FindById(tasks, r.id)
         /\ r.op = "list" => \A i \in DOMAIN r.content : r.content[i] \in tasks
         /\ \A t \in tasks :
              \E i \in 1..Cardinality(tasks) :
                GetTasks(tasks, users, t.user, 0, MaxTasks, <<>>, TRUE).content[i] = t
    ]_vars

\* A read of a task that was created and then deleted found nothing.
C23_Witness ==
  /\ response.op = "get"
  /\ response.id < nextId
  /\ response.outcome = "ResourceNotFoundException"

\* The stored refresh tokens of a user.
TokensOf(user) == {row \in refreshTokens : row.user = user}

\* C24: after any sequence of signup, login, refresh and logout transactions
\* every user has at most one stored refresh token.
C24_OneSessionPerUser ==
  \A user \in Emails : Cardinality(TokensOf(user)) <= 1

\* A user who already had a stored refresh token logged in again and holds
\* exactly the token that login returned.
C24_Witness ==
  /\ response.op = "login"
  /\ response.outcome = "ok"
  /\ response.tokens.refreshToken # GenerateTokens(1).refreshToken
  /\ users[response.caller] = "USER"
  /\ TokensOf(response.caller) = {TokenRow(response.tokens.refreshToken, response.caller, FALSE)}

\* Request r went through a renewal and its caller has its outcome.
RenewedAndSettled(r) ==
  /\ reply[r] # NoReply
  /\ pc[r] \in {"settled", "idle"}

\* C25: when two requests each got a 401 with the same refresh token stored
\* (so both renewal calls carried it), the server honours a refresh token
\* once, and one of the two renewals succeeded, then after both requests
\* settled the stored tokens are the pair that renewal issued, the user is
\* still signed in and the browser was not sent to /login.
C25_RenewalRaceKeepsSession ==
  \A r1, r2 \in Requests :
    ( /\ r1 # r2
      /\ RenewedAndSettled(r1)
      /\ RenewedAndSettled(r2)
      /\ reply[r1].presented = reply[r2].presented
      /\ reply[r1].status = 200 )
    => /\ localStorage.accessToken = reply[r1].data.accessToken
       /\ localStorage.refreshToken = reply[r1].data.refreshToken
       /\ Truthy(localStorage.user)
       /\ href # "/login"

(***************************************************************************)
(* The request pipeline: failures after a renewal and of login / signup.   *)
(***************************************************************************)

\* C26: when the answer to the retried request (sent after a successful
\* renewal) is a failure of any kind, a second 401 and a transport failure
\* included, the caller is rejected with that answer of the retry, no further
\* call is sent, and the step leaves the session alone: localStorage (the
\* renewed tokens and the user key), the store and the page are unchanged.
C26_RetryFailureKeepsSession ==
  [][\A r \in Requests : \A s \in {s \in Statuses : ~IsSuccess(s)} :
       (/\ pc[r] = "retrying"
        /\ Len(log'[r]) > Len(log[r])
        /\ log'[r][Len(log[r]) + 1] = Received("retry", s)) =>
         /\ log'[r] = Append(log[r], Received("retry", s))
         /\ pc'[r] = "settled"
         /\ result'[r] = [state |-> "rejected", call |-> "retry", status |-> s,
                          data |-> NoData]
         /\ localStorage' = localStorage
         /\ authState' = authState
         /\ href' = href]_vars

\* A retry was answered 401 and the caller rejected with it, while storage
\* still holds the pair the renewal of that request returned, and the user
\* key, and the browser was not sent to /login.
C26_Witness ==
  \E r \in Requests :
    /\ pc[r] = "settled"
    /\ result[r] = [state |-> "rejected", call |-> "retry", status |-> 401,
                    data |-> NoData]
    /\ Renewals(r) = 1
    /\ localStorage.accessToken = renewData[r].accessToken
    /\ localStorage.refreshToken = renewData[r].refreshToken
    /\ Truthy(localStorage.user)
    /\ href # "/login"

\* C27: a login() or signup() call that rejects leaves the three storage keys
\* and the store's user / isAuthenticated as they were: neither the step in
\* which the api promise of the call rejects, nor the continuation that
\* passes the rejection on to the page, changes localStorage or the store,
\* whatever is stored at that moment.
C27_RejectedLoginChangesNothing ==
  [][\A r \in Requests :
       (/\ kind[r] = "auth"
        /\ \/ pc[r] # "settled" /\ pc'[r] = "settled" /\ result'[r].state = "rejected"
           \/ pc[r] = "settled" /\ result[r].state = "rejected" /\ pc'[r] = "idle") =>
         /\ localStorage' = localStorage
         /\ authState' = authState]_vars

(***************************************************************************)
(* The tasks page.                                                         *)
(***************************************************************************)

\* C28: once no task-list fetch is pending, and the fetch issued last was
\* answered successfully, the page shows the tasks, totalPages and
\* totalElements of the response to that fetch, i.e. to the current
\* pageIndex, pageSize and search, whatever order the responses arrived in.
C28_LatestFetchShown ==
  (fetches = <<>> /\ page.latest = "ok") =>
    LET data == PageResponse(page)
    IN /\ page.tasks = data.content
       /\ page.totalPages = data.totalPages
       /\ page.totalElements = data.totalElements

(***************************************************************************)
(* The DataTable with a page index beyond the pages there are.             *)
(***************************************************************************)

\* C29: in server mode, whatever pageIndex and pageCount the caller passes
\* (a pageIndex beyond the last page included), the index an enabled
\* navigation button passes to onPaginationChange lies in 0..pageCount - 1.
C29_TargetWithinPages ==
  [][(/\ event'.handler \in Buttons
      /\ props.pageCount # Undefined
      /\ props.onPaginationChange) =>
       \A i \in DOMAIN event'.calls :
         event'.calls[i].index \in 0..(props.pageCount - 1)]_vars

\* C30: whenever totalElements is supplied, the range of the count text
\* satisfies 1 <= start <= end <= totalElements, for an empty result and
\* for a page index past the last page too.
C30_RangeWithinTotal ==
  (created # "none" /\ props.totalElements # Undefined) =>
    /\ 1 <= view.text.start
    /\ view.text.start <= view.text.end
    /\ view.text.end <= props.totalElements

====
